---- MODULE Spec2Model ----
(***************************************************************************)
(* Model of logic_parser (src/src/main.rs): the untwine grammar of         *)
(* propositional formulas, the evaluator interpret/interpret_, the         *)
(* variable collector get_vars/get_vars_ and the truth-table enumerator    *)
(* make_table.                                                             *)
(*                                                                         *)
(* Names are sequences of one-character strings (<<"a","b">> is "ab"), so  *)
(* that the parser builds them from the characters of its input.           *)
(***************************************************************************)
EXTENDS Integers, Sequences, FiniteSets, TLC

VARIABLES
    line,       \* parser: the characters handed to the grammar
    sep,        \* parser: what the writer of line puts between two tokens
    ntok,       \* parser: the number of tokens in line
    parsed,     \* parser: the outcome of running rule `expr` on line
    expr,       \* evaluator / collector: the tree under evaluation
    vars,       \* evaluator: the assignment HashMap<String, bool>
    value,      \* evaluator: the outcome of interpret(expr, vars)
    symbols,    \* collector: the outcome of get_vars(expr)
    asts,       \* table: the trees of the program being tabulated
    order,      \* table: the order in which the HashSet iterator yields
    tables,     \* table: the outcome of make_table
    evals,      \* table: interpret of every tree against every row
    earlier     \* table: the outcome of the preceding make_table call

vars_all == <<line, sep, ntok, parsed, expr, vars, value, symbols,
              asts, order, tables, evals, earlier>>

(***************************************************************************)
(* Bounds.                                                                 *)
(***************************************************************************)
MaxOps == 2          \* operator nodes of a tree handed to interpret / get_vars
MaxTokens == 5       \* tokens of a line handed to the parser
MaxProgSteps == 3    \* named expressions plus operator nodes of a tabulated program

(***************************************************************************)
(* enum Expr                                                               *)
(***************************************************************************)
ETrue == [tag |-> "True"]
EFalse == [tag |-> "False"]
Term(t) == [tag |-> "Term", name |-> t]
Not(e) == [tag |-> "Not", e |-> e]
And(l, r) == [tag |-> "And", l |-> l, r |-> r]
Or(l, r) == [tag |-> "Or", l |-> l, r |-> r]
Imply(l, r) == [tag |-> "Imply", l |-> l, r |-> r]
Equiv(l, r) == [tag |-> "Equiv", l |-> l, r |-> r]

BinTags == {"And", "Or", "Imply", "Equiv"}
Bin(tag, l, r) == [tag |-> tag, l |-> l, r |-> r]

(***************************************************************************)
(* Outcome of a call that may panic.                                       *)
(***************************************************************************)
NotCalled == [called |-> FALSE, panic |-> FALSE, val |-> FALSE]
Panic == [called |-> TRUE, panic |-> TRUE, val |-> FALSE]
Ok(b) == [called |-> TRUE, panic |-> FALSE, val |-> b]

(***************************************************************************)
(* get_vars_ / get_vars                                                    *)
(***************************************************************************)
RECURSIVE get_vars_(_)

get_vars_Or(l, r) == get_vars_(l) \o get_vars_(r)
get_vars_And(l, r) == get_vars_(l) \o get_vars_(r)
\* A collector that forgets the right operand of an implication.
get_vars_Imply_left_only(l, r) == get_vars_(l)
get_vars_Imply(l, r) == get_vars_(l) \o get_vars_(r)
get_vars_Equiv(l, r) == get_vars_(l) \o get_vars_(r)

get_vars_(e) ==
    CASE e.tag = "True" -> << >>
      [] e.tag = "False" -> << >>
      [] e.tag = "Term" -> << e.name >>
      [] e.tag = "Not" -> get_vars_(e.e)
      [] e.tag = "Or" -> get_vars_Or(e.l, e.r)
      [] e.tag = "And" -> get_vars_And(e.l, e.r)
      [] e.tag = "Imply" -> get_vars_Imply(e.l, e.r)
      [] e.tag = "Equiv" -> get_vars_Equiv(e.l, e.r)

get_vars(e) ==
    LET v == get_vars_(e) IN {v[i] : i \in 1..Len(v)}

(***************************************************************************)
(* interpret / interpret_                                                  *)
(***************************************************************************)
contains_key(m, k) == k \in DOMAIN m

\* The bitwise operators of bool evaluate both operands: a panic in either
\* one unwinds the whole expression.
NotVal(a) == IF a.panic THEN Panic ELSE Ok(~a.val)
OrVal(a, b) == IF a.panic \/ b.panic THEN Panic ELSE Ok(a.val \/ b.val)
AndVal(a, b) == IF a.panic \/ b.panic THEN Panic ELSE Ok(a.val /\ b.val)
\* An implication computed as l | !r.
ImplyVal_converse(a, b) == IF a.panic \/ b.panic THEN Panic ELSE Ok(a.val \/ ~b.val)
ImplyVal(a, b) == IF a.panic \/ b.panic THEN Panic ELSE Ok((~a.val) \/ b.val)
EquivVal(a, b) == IF a.panic \/ b.panic THEN Panic ELSE Ok(~(a.val # b.val))

\* An evaluator without the up-front check whose || and && short-circuit
\* (the hazard the comment at the head of interpret_ recalls).
RECURSIVE interpret_short_circuit(_, _)
interpret_short_circuit(e, m) ==
    CASE e.tag = "True" -> Ok(TRUE)
      [] e.tag = "False" -> Ok(FALSE)
      [] e.tag = "Term" -> IF e.name \in DOMAIN m THEN Ok(m[e.name]) ELSE Panic
      [] e.tag = "Not" -> NotVal(interpret_short_circuit(e.e, m))
      [] e.tag = "Or" ->
            LET a == interpret_short_circuit(e.l, m)
            IN  IF a.panic \/ a.val THEN a ELSE interpret_short_circuit(e.r, m)
      [] e.tag = "And" ->
            LET a == interpret_short_circuit(e.l, m)
            IN  IF a.panic \/ ~a.val THEN a ELSE interpret_short_circuit(e.r, m)
      [] e.tag = "Imply" ->
            LET a == interpret_short_circuit(e.l, m)
            IN  IF a.panic THEN a
                ELSE IF ~a.val THEN Ok(TRUE) ELSE interpret_short_circuit(e.r, m)
      [] e.tag = "Equiv" ->
            EquivVal(interpret_short_circuit(e.l, m), interpret_short_circuit(e.r, m))

RECURSIVE interpret(_, _)
RECURSIVE interpret_(_, _)

interpret(e, m) ==
    IF \E s \in get_vars(e) : ~contains_key(m, s)
    THEN Panic
    ELSE interpret_(e, m)

interpret_(e, m) ==
    CASE e.tag = "True" -> Ok(TRUE)
      [] e.tag = "False" -> Ok(FALSE)
      [] e.tag = "Term" -> IF e.name \in DOMAIN m THEN Ok(m[e.name]) ELSE Panic
      [] e.tag = "Not" -> NotVal(interpret(e.e, m))
      [] e.tag = "Or" -> OrVal(interpret(e.l, m), interpret(e.r, m))
      [] e.tag = "And" -> AndVal(interpret(e.l, m), interpret(e.r, m))
      [] e.tag = "Imply" -> ImplyVal(interpret(e.l, m), interpret(e.r, m))
      [] e.tag = "Equiv" -> EquivVal(interpret(e.l, m), interpret(e.r, m))

(***************************************************************************)
(* The grammar of the parser! block.  A rule takes the input and a         *)
(* position (1-based) and yields [ok, pos, val]: whether it matched, the   *)
(* position after the match, and its output.  Patterns are matched in      *)
(* sequence, a choice takes its first alternative that matches from the    *)
(* same position, and a repetition takes items greedily until one fails.   *)
(***************************************************************************)
Lower == {"a", "b", "c", "d", "e", "f", "g", "h", "i", "j", "k", "l", "m",
          "n", "o", "p", "q", "r", "s", "t", "u", "v", "w", "x", "y", "z"}
Upper == {"A", "B", "C", "D", "E", "F", "G", "H", "I", "J", "K", "L", "M",
          "N", "O", "P", "Q", "R", "S", "T", "U", "V", "W", "X", "Y", "Z"}
Whitespace == {"\n", "\r", "\t", " "}

Fail(p) == [ok |-> FALSE, pos |-> p, val |-> ETrue]
Match(p, v) == [ok |-> TRUE, pos |-> p, val |-> v]

\* A string literal pattern.
Lit(s, p, text) ==
    /\ p + Len(text) - 1 <= Len(s)
    /\ SubSeq(s, p, p + Len(text) - 1) = text

RECURSIVE w(_, _)
w(s, p) ==
    IF p <= Len(s) /\ s[p] \in Whitespace THEN w(s, p + 1) ELSE p

RECURSIVE letters(_, _)
letters(s, p) ==
    IF p <= Len(s) /\ s[p] \in (Lower \cup Upper) THEN letters(s, p + 1) ELSE p

ident(s, p) ==
    LET q == letters(s, p)
    IN  IF q > p THEN Match(q, SubSeq(s, p, q - 1)) ELSE Fail(p)

operator(s, p) ==
    CASE Lit(s, p, <<"&">>) -> Match(p + 1, "&")
      [] Lit(s, p, <<"|">>) -> Match(p + 1, "|")
      [] Lit(s, p, <<"=", ">">>) -> Match(p + 2, "=>")
      [] Lit(s, p, <<"<", "=", ">">>) -> Match(p + 3, "<=>")
      [] OTHER -> Fail(p)

term(s, p) ==
    LET t == ident(s, p)
    IN  IF ~t.ok THEN Fail(p)
        ELSE CASE t.val = <<"t", "r", "u", "e">> -> Match(t.pos, ETrue)
               [] t.val = <<"f", "a", "l", "s", "e">> -> Match(t.pos, EFalse)
               [] OTHER -> Match(t.pos, Term(t.val))

typ(op, l, r) ==
    CASE op = "&" -> And(l, r)
      [] op = "|" -> Or(l, r)
      [] op = "=>" -> Imply(l, r)
      [] op = "<=>" -> Equiv(l, r)

\* rest.into_iter().fold(left, |l, (op, r)| typ(l, r))
RECURSIVE fold(_, _)
fold(left, rest) ==
    IF rest = << >> THEN left
    ELSE fold(typ(Head(rest)[1], left, Head(rest)[2]), Tail(rest))

RECURSIVE not(_, _)
RECURSIVE unary(_, _)
RECURSIVE binary_rest(_, _, _)
RECURSIVE binary(_, _)
RECURSIVE expr_rule(_, _)

\* not: "!" w e=expr
not(s, p) ==
    IF ~Lit(s, p, <<"!">>) THEN Fail(p)
    ELSE LET e == expr_rule(s, w(s, p + 1))
         IN  IF e.ok THEN Match(e.pos, Not(e.val)) ELSE Fail(p)

\* ("(" expr ")")
paren(s, p) ==
    IF ~Lit(s, p, <<"(">>) THEN Fail(p)
    ELSE LET e == expr_rule(s, p + 1)
         IN  IF e.ok /\ Lit(s, e.pos, <<")">>)
             THEN Match(e.pos + 1, e.val)
             ELSE Fail(p)

\* unary = w (term | not | ("(" expr ")")) w
unary(s, p) ==
    LET q == w(s, p)
        t == term(s, q)
        n == not(s, q)
        g == paren(s, q)
        m == IF t.ok THEN t ELSE IF n.ok THEN n ELSE g
    IN  IF m.ok THEN Match(w(s, m.pos), m.val) ELSE Fail(p)

\* rest=(w operator w binary)*
binary_rest(s, p, acc) ==
    LET o == operator(s, w(s, p))
        b == binary(s, w(s, o.pos))
    IN  IF o.ok /\ b.ok
        THEN binary_rest(s, b.pos, Append(acc, <<o.val, b.val>>))
        ELSE Match(p, acc)

\* binary: left=unary w rest=(w operator w binary)*
binary(s, p) ==
    LET left == unary(s, p)
    IN  IF ~left.ok THEN Fail(p)
        ELSE LET rest == binary_rest(s, w(s, left.pos), << >>)
             IN  Match(rest.pos, fold(left.val, rest.val))

\* pub expr = w (binary | unary) w
expr_rule(s, p) ==
    LET q == w(s, p)
        b == binary(s, q)
        u == unary(s, q)
        m == IF b.ok THEN b ELSE u
    IN  IF m.ok THEN Match(w(s, m.pos), m.val) ELSE Fail(p)

(***************************************************************************)
(* make_table.  A HashSet yields its elements in an order fixed by its     *)
(* hasher's per-instance random keys: the iterator is any arrangement of   *)
(* the set.                                                                *)
(***************************************************************************)
iter(set) ==
    {it \in [1..Cardinality(set) -> set] : \A k \in set : \E i \in DOMAIN it : it[i] = k}

insert(table, k, b) ==
    [x \in (DOMAIN table) \cup {k} |-> IF x = k THEN b ELSE table[x]]

NotTabled == [called |-> FALSE, panic |-> FALSE, rows |-> << >>]
TablePanic == [called |-> TRUE, panic |-> TRUE, rows |-> << >>]
Tabled(rows) == [called |-> TRUE, panic |-> FALSE, rows |-> rows]

\* A doubling that pushes the false row twice.
RECURSIVE double_false_twice(_, _)
double_false_twice(tbls, v) ==
    IF tbls = << >> THEN << >>
    ELSE << insert(Head(tbls), v, FALSE), insert(Head(tbls), v, FALSE) >>
         \o double_false_twice(Tail(tbls), v)

\* for table in tables { push(table + v:false); push(table + v:true) }
RECURSIVE double(_, _)
double(tbls, v) ==
    IF tbls = << >> THEN << >>
    ELSE << insert(Head(tbls), v, FALSE), insert(Head(tbls), v, TRUE) >>
         \o double(Tail(tbls), v)

\* A loop that never runs: only the first variable gets bound.
table_loop_skipped(tbls, it) == tbls

\* for v in it { ...; tables = ls2 }
RECURSIVE table_loop(_, _)
table_loop(tbls, it) ==
    IF it = << >> THEN tbls
    ELSE table_loop(double(tbls, Head(it)), Tail(it))

\* An enumerator that starts from the empty assignment, so that an empty
\* set yields one empty row.
make_table_from_empty_row(it) == Tabled(table_loop(<< << >> >>, it))

\* `it` is vars.iter(): it.next().unwrap() panics when the set is empty.
make_table(it) ==
    IF it = << >> THEN TablePanic
    ELSE LET first == Head(it)
             two == << [x \in {first} |-> FALSE], [x \in {first} |-> TRUE] >>
         IN  Tabled(table_loop(two, Tail(it)))

(***************************************************************************)
(* Inputs.                                                                 *)
(***************************************************************************)
Tokens == { <<"a">>, <<"b">>, <<"!">>, <<"(">>, <<")">>, <<"&">>, <<"|">>,
            <<"=", ">">>, <<"<", "=", ">">>, <<"t", "r", "u", "e">> }
Separators == { << >>, <<" ">> }

EvalNames == { <<"x">>, <<"y">> }
EvalLeaves == {ETrue, EFalse} \cup {Term(n) : n \in EvalNames}
Assignments == UNION {[d -> BOOLEAN] : d \in SUBSET EvalNames}

ProgNames == { <<"x">>, <<"y">>, <<"z">> }
ProgLeaves == {ETrue} \cup {Term(n) : n \in ProgNames}

RECURSIVE Ops(_)
Ops(e) ==
    CASE e.tag \in {"True", "False", "Term"} -> 0
      [] e.tag = "Not" -> 1 + Ops(e.e)
      [] OTHER -> 1 + Ops(e.l) + Ops(e.r)

RECURSIVE ProgOps(_)
ProgOps(prog) == IF prog = << >> THEN 0 ELSE Ops(Head(prog)) + ProgOps(Tail(prog))

NotCollected == [called |-> FALSE, set |-> {}]
Collected(set) == [called |-> TRUE, set |-> set]

NotParsed == [called |-> FALSE, ok |-> FALSE, pos |-> 0, val |-> ETrue]
Parsed(r) == [called |-> TRUE, ok |-> r.ok, pos |-> r.pos, val |-> r.val]

ParserIdle ==
    /\ line = << >> /\ sep = << >> /\ ntok = 0 /\ parsed = NotParsed
EvalIdle ==
    /\ expr = ETrue /\ vars = << >> /\ value = NotCalled /\ symbols = NotCollected
TableIdle ==
    /\ asts = << >> /\ order = << >> /\ tables = NotTabled
    /\ evals = << >> /\ earlier = NotTabled

parser_vars == <<line, sep, ntok, parsed>>
eval_vars == <<expr, vars, value, symbols>>
table_vars == <<asts, order, tables, evals, earlier>>

(***************************************************************************)
(* The parser: a line is written token by token, then handed to `expr`.    *)
(***************************************************************************)
InitParse ==
    /\ line = << >> /\ sep \in Separators /\ ntok = 0 /\ parsed = NotParsed
    /\ EvalIdle /\ TableIdle

Type(tok) ==
    /\ ~parsed.called
    /\ ntok < MaxTokens
    /\ line' = IF line = << >> THEN tok ELSE line \o sep \o tok
    /\ ntok' = ntok + 1
    /\ UNCHANGED <<sep, parsed, eval_vars, table_vars>>

Parse ==
    /\ ~parsed.called
    /\ parsed' = Parsed(expr_rule(line, 1))
    /\ UNCHANGED <<line, sep, ntok, eval_vars, table_vars>>

NextParse ==
    \/ \E tok \in Tokens : Type(tok)
    \/ Parse

SpecParse == InitParse /\ [][NextParse]_vars_all

(***************************************************************************)
(* The evaluator and the collector: a tree is built node by node, then     *)
(* handed to interpret with an assignment, or to get_vars.                 *)
(***************************************************************************)
InitEval ==
    /\ expr \in EvalLeaves /\ vars = << >> /\ value = NotCalled
    /\ symbols = NotCollected
    /\ ParserIdle /\ TableIdle

Uncalled == ~value.called /\ ~symbols.called
Fresh == Uncalled /\ Ops(expr) < MaxOps

WrapNot ==
    /\ Fresh
    /\ expr' = Not(expr)
    /\ UNCHANGED <<vars, value, symbols, parser_vars, table_vars>>

WrapLeft(tag, leaf) ==
    /\ Fresh
    /\ expr' = Bin(tag, expr, leaf)
    /\ UNCHANGED <<vars, value, symbols, parser_vars, table_vars>>

WrapRight(tag, leaf) ==
    /\ Fresh
    /\ expr' = Bin(tag, leaf, expr)
    /\ UNCHANGED <<vars, value, symbols, parser_vars, table_vars>>

Interpret(m) ==
    /\ Uncalled
    /\ vars' = m
    /\ value' = interpret(expr, m)
    /\ UNCHANGED <<expr, symbols, parser_vars, table_vars>>

GetVars ==
    /\ Uncalled
    /\ symbols' = Collected(get_vars(expr))
    /\ UNCHANGED <<expr, vars, value, parser_vars, table_vars>>

NextEval ==
    \/ WrapNot
    \/ \E tag \in BinTags, leaf \in EvalLeaves : WrapLeft(tag, leaf)
    \/ \E tag \in BinTags, leaf \in EvalLeaves : WrapRight(tag, leaf)
    \/ \E m \in Assignments : Interpret(m)
    \/ GetVars

SpecEval == InitEval /\ [][NextEval]_vars_all

(***************************************************************************)
(* main, after the parse: the trees of a program are unzipped, their       *)
(* variables are collected into one HashSet, and make_table enumerates the *)
(* rows.  The row driver that main keeps commented out hands each row to   *)
(* interpret; eval_rows applies it to every tree of the program.           *)
(***************************************************************************)
InitTable ==
    /\ asts = << >> /\ order = << >> /\ tables = NotTabled
    /\ evals = << >> /\ earlier = NotTabled
    /\ ParserIdle /\ EvalIdle

Editing == ~tables.called

\* let vars = asts.iter().flat_map(|e| get_vars(e.clone())).collect::<HashSet<String>>()
universe(prog) == UNION {get_vars(prog[i]) : i \in DOMAIN prog}

eval_rows(prog, tbl) ==
    [i \in DOMAIN tbl.rows |-> [j \in DOMAIN prog |-> interpret(prog[j], tbl.rows[i])]]

AddStatement(leaf) ==
    /\ Editing
    /\ Len(asts) + ProgOps(asts) < MaxProgSteps
    /\ asts' = Append(asts, leaf)
    /\ UNCHANGED <<order, tables, evals, earlier, parser_vars, eval_vars>>

GrowLast(e) ==
    /\ Editing
    /\ asts # << >>
    /\ Len(asts) + ProgOps(asts) < MaxProgSteps
    /\ asts' = [asts EXCEPT ![Len(asts)] = e]
    /\ UNCHANGED <<order, tables, evals, earlier, parser_vars, eval_vars>>

GrowNot == GrowLast(Not(asts[Len(asts)]))
GrowBin(tag, leaf) == GrowLast(Bin(tag, asts[Len(asts)], leaf))

Tabulate(it) ==
    /\ Editing
    /\ order' = it
    /\ tables' = make_table(it)
    /\ evals' = eval_rows(asts, tables')
    /\ UNCHANGED <<asts, earlier, parser_vars, eval_vars>>

NextTable ==
    \/ \E leaf \in ProgLeaves : AddStatement(leaf)
    \/ GrowNot
    \/ \E tag \in BinTags, leaf \in ProgLeaves : GrowBin(tag, leaf)
    \/ \E it \in iter(universe(asts)) : Tabulate(it)

SpecTable == InitTable /\ [][NextTable]_vars_all

\* The next turn of main's loop reads the same line: the same program is
\* tabulated again, its variables collected into a new HashSet.
Retabulate(it) ==
    /\ tables.called
    /\ ~earlier.called
    /\ order' = it
    /\ tables' = make_table(it)
    /\ evals' = eval_rows(asts, tables')
    /\ earlier' = tables
    /\ UNCHANGED <<asts, parser_vars, eval_vars>>

NextRepeat ==
    \/ NextTable
    \/ \E it \in iter(universe(asts)) : Retabulate(it)

SpecRepeat == InitTable /\ [][NextRepeat]_vars_all

(***************************************************************************)
(* Properties.                                                             *)
(***************************************************************************)
\* The names carried by the Term nodes of a tree, read off its subtrees.
RECURSIVE Subtrees(_)
Subtrees(e) ==
    {e} \cup CASE e.tag \in {"True", "False", "Term"} -> {}
               [] e.tag = "Not" -> Subtrees(e.e)
               [] OTHER -> Subtrees(e.l) \cup Subtrees(e.r)
TermNames(e) == {t.name : t \in {u \in Subtrees(e) : u.tag = "Term"}}

RECURSIVE Join(_, _)
Join(toks, s) ==
    IF Len(toks) = 1 THEN toks[1] ELSE toks[1] \o s \o Join(Tail(toks), s)

AtomTexts == { <<"a">>, <<"b">> }
Operators == { [text |-> <<"&">>, sym |-> "&"],
               [text |-> <<"|">>, sym |-> "|"],
               [text |-> <<"=", ">">>, sym |-> "=>"],
               [text |-> <<"<", "=", ">">>, sym |-> "<=>"] }

RECURSIVE Pow2(_)
Pow2(n) == IF n = 0 THEN 1 ELSE 2 * Pow2(n - 1)

\* C1: an unparenthesised chain `a op1 b op2 c` parses to the left fold
\* op2(op1(a, b), c).
C1_LeftFold ==
    \A a \in AtomTexts, b \in AtomTexts, c \in AtomTexts :
      \A o1 \in Operators, o2 \in Operators :
        (parsed.called /\ line = Join(<<a, o1.text, b, o2.text, c>>, sep))
            => /\ parsed.ok
               /\ parsed.val = typ(o2.sym, typ(o1.sym, Term(a), Term(b)), Term(c))

\* C2: negation binds tighter than a binary operator: `!a op b` parses to
\* op(Not(a), b).
C2_NegationBindsTighter ==
    \A a \in AtomTexts, b \in AtomTexts, o \in Operators :
        (parsed.called /\ line = Join(<< <<"!">>, a, o.text, b >>, sep))
            => /\ parsed.ok
               /\ parsed.val = typ(o.sym, Not(Term(a)), Term(b))

\* The rows of a returned table: 2^n of them, pairwise distinct, each one
\* binding exactly the variables of the set.
FullTable(set) ==
    /\ ~tables.panic
    /\ Len(tables.rows) = Pow2(Cardinality(set))
    /\ \A i \in DOMAIN tables.rows, j \in DOMAIN tables.rows :
          i # j => tables.rows[i] # tables.rows[j]
    /\ \A i \in DOMAIN tables.rows : DOMAIN tables.rows[i] = set

C5_UnboundNeverMasked ==
    (value.called /\ expr.tag \in BinTags /\ TermNames(expr) \ DOMAIN vars # {})
        => value.panic

C5_Witness ==
    /\ value.called
    /\ expr = Or(ETrue, Term(<<"x">>))
    /\ vars = [n \in { <<"y">> } |-> TRUE]
    /\ value.panic

\* C7: two calls of make_table on the same set of variables return the same
\* rows in the same order.
C7_SameRowsEveryCall ==
    (tables.called /\ earlier.called) => tables.rows = earlier.rows

\* C8: under an assignment that binds every variable, Imply(p, q) evaluates
\* to what Or(Not(p), q) evaluates to.
C8_ImplyDesugars ==
    (value.called /\ expr.tag = "Imply" /\ TermNames(expr) \subseteq DOMAIN vars)
        => /\ ~value.panic
           /\ value = interpret(Or(Not(expr.l), expr.r), vars)

C8_Witness ==
    /\ value.called
    /\ expr = Imply(Term(<<"x">>), Not(Term(<<"y">>)))
    /\ vars = [n \in EvalNames |-> TRUE]
    /\ value = Ok(FALSE)

\* C9: get_vars returns exactly the names of the Term nodes of the tree:
\* every name at any depth, once each, and nothing for the literals.
C9_ExactlyTheTermNames ==
    symbols.called => symbols.set = TermNames(expr)

C9_Witness ==
    /\ symbols.called
    /\ expr = Imply(Term(<<"x">>), Or(Term(<<"x">>), ETrue))
    /\ symbols.set = { <<"x">> }

\* C10: no tree of a program panics when evaluated against a row that
\* make_table produced over the union of the program's variables.
C10_TableRowsNeverUnbound ==
    tables.called =>
        \A i \in DOMAIN evals : \A j \in DOMAIN evals[i] : ~evals[i][j].panic

C10_Witness ==
    /\ tables.called
    /\ Len(asts) = 2
    /\ universe(asts) = ProgNames
    /\ Len(evals) = 8
    /\ \E i \in DOMAIN evals : evals[i][1].val # evals[i][2].val

====
